---- MODULE Spec2Model ----
(***************************************************************************)
(* A model of the gracychat Lambda: the request handler, the query router, *)
(* the two upstream fetchers with their in-memory TTL caches and the audit *)
(* log, in the two variants the repository holds (the modular package      *)
(* src/functions and the single-file src/lambda/lambda_function.py).       *)
(*                                                                         *)
(* Python values are tagged records [t |-> <type>, <payload>]; a str      *)
(* is a sequence of one-character strings, so that the regular expressions *)
(* and strip()/rstrip()/lower() work on characters as the code does.       *)
(***************************************************************************)
EXTENDS Integers, Sequences, FiniteSets, TLC

VARIABLES variant, now, ticks, invocations, weather_cache, joke_cache, LOGS_TABLE,
          inv, hist

vars == <<variant, now, ticks, invocations, weather_cache, joke_cache, LOGS_TABLE,
          inv, hist>>

(***************************************************************************)
(* Characters and Python's str methods                                     *)
(***************************************************************************)
UpperChars == <<"A", "B", "C", "D", "E", "F", "G", "H", "I", "J", "K", "L", "M",
                "N", "O", "P", "Q", "R", "S", "T", "U", "V", "W", "X", "Y", "Z">>

LowerChars == <<"a", "b", "c", "d", "e", "f", "g", "h", "i", "j", "k", "l", "m",
                "n", "o", "p", "q", "r", "s", "t", "u", "v", "w", "x", "y", "z">>

\* the characters \s matches and str.strip() removes
Whitespace == {" ", "\t", "\n", "\r"}

LowerChar(c) ==
    IF \E i \in 1..Len(UpperChars) : UpperChars[i] = c
    THEN LowerChars[CHOOSE i \in 1..Len(UpperChars) : UpperChars[i] = c]
    ELSE c

\* str.lower() leaving the letters' case alone
lower_Identity(s) == s

\* str.lower()
lower(s) == [i \in 1..Len(s) |-> LowerChar(s[i])]

SetMax(S) == CHOOSE x \in S : \A y \in S : y <= x

SetMin(S) == CHOOSE x \in S : \A y \in S : x <= y

\* str.strip(): drop leading and trailing whitespace
strip(s) ==
    LET keep == {i \in 1..Len(s) : s[i] \notin Whitespace}
    IN  IF keep = {} THEN <<>> ELSE SubSeq(s, SetMin(keep), SetMax(keep))

\* str.rstrip(chars): drop every trailing character that is in chars
rstrip(s, chars) ==
    LET keep == {i \in 1..Len(s) : s[i] \notin chars}
    IN  IF keep = {} THEN <<>> ELSE SubSeq(s, 1, SetMax(keep))

\* the word w occurs in s at position i
MatchAt(s, i, w) ==
    /\ i >= 1
    /\ i + Len(w) - 1 <= Len(s)
    /\ SubSeq(s, i, i + Len(w) - 1) = w

\* the number of whitespace characters starting at position i
WsRun(s, i) ==
    LET stop == {j \in i..Len(s) : s[j] \notin Whitespace}
    IN  IF i > Len(s) THEN 0
        ELSE IF stop = {} THEN Len(s) - i + 1
        ELSE SetMin(stop) - i

(***************************************************************************)
(* weather_pattern: (weather|forecast|temperature)\s+(?:in|for|about|of)?  *)
(*                  \s*(.+)                                                *)
(* matched as Python's backtracking matcher does: every quantifier is      *)
(* greedy and gives characters back only when the rest fails.              *)
(***************************************************************************)
WeatherKeywords ==
    { <<"w", "e", "a", "t", "h", "e", "r">>,
      <<"f", "o", "r", "e", "c", "a", "s", "t">>,
      <<"t", "e", "m", "p", "e", "r", "a", "t", "u", "r", "e">> }

Connectives ==
    { <<"i", "n">>, <<"f", "o", "r">>, <<"a", "b", "o", "u", "t">>, <<"o", "f">> }

JokeKeywords ==
    { <<"j", "o", "k", "e">>, <<"f", "u", "n", "n", "y">>, <<"h", "u", "m", "o", "r">> }

\* \s*(.+) from position q: where group 2 starts, 0 when it cannot match.
\* \s* takes the longest run that leaves (.+) one character other than \n.
Group2After(s, q) ==
    LET R == {r \in 0..WsRun(s, q) : q + r <= Len(s) /\ s[q + r] # "\n"}
    IN  IF R = {} THEN 0 ELSE q + SetMax(R)

\* (?:in|for|about|of)?\s*(.+) from position q: the connective is tried first
OptConnective(s, q) ==
    LET cs == {c \in Connectives : MatchAt(s, q, c)}
        with == IF cs = {} THEN 0
                ELSE Group2After(s, q + Len(CHOOSE c \in cs : TRUE))
    IN  IF with # 0 THEN with ELSE Group2After(s, q)

\* \s+(?:...)?\s*(.+) from position k, the first position after the keyword
AfterKeyword(s, k) ==
    LET J == {j \in 1..WsRun(s, k) : OptConnective(s, k + j) # 0}
    IN  IF J = {} THEN 0 ELSE OptConnective(s, k + SetMax(J))

\* (.+) from its start: up to the end of the line
DotPlus(s, g) ==
    LET nl == {j \in g..Len(s) : s[j] = "\n"}
    IN  IF nl = {} THEN SubSeq(s, g, Len(s)) ELSE SubSeq(s, g, SetMin(nl) - 1)

\* weather_pattern.search(s): [matched, group2, start], the leftmost match;
\* start is where group 2 begins
weather_pattern_search(s) ==
    LET starts == {i \in 1..Len(s) :
                     \E kw \in WeatherKeywords :
                        MatchAt(s, i, kw) /\ AfterKeyword(s, i + Len(kw)) # 0}
    IN  IF starts = {} THEN [matched |-> FALSE, group2 |-> <<>>, start |-> 0]
        ELSE LET i  == SetMin(starts)
                 kw == CHOOSE w \in WeatherKeywords :
                          MatchAt(s, i, w) /\ AfterKeyword(s, i + Len(w)) # 0
             IN  [matched |-> TRUE,
                  group2  |-> DotPlus(s, AfterKeyword(s, i + Len(kw))),
                  start   |-> AfterKeyword(s, i + Len(kw))]

\* joke_pattern.search(s) is not None
joke_pattern_search(s) ==
    \E i \in 1..Len(s) : \E kw \in JokeKeywords : MatchAt(s, i, kw)

(***************************************************************************)
(* Python values and JSON                                                  *)
(***************************************************************************)
PyNone == [t |-> "none"]

PyStr(chars) == [t |-> "str", s |-> chars]

PyInt(n) == [t |-> "int", n |-> n]

PyList(items) == [t |-> "list", l |-> items]

\* a dict: d is a function from the keys present to their values
PyDict(d) == [t |-> "dict", d |-> d]

EmptyDict == <<>>

\* a str holding the JSON serialisation of j; j = "invalid" stands for a
\* non-empty text that is no JSON document
JsonText(j) == [t |-> "jsontext", j |-> j]

InvalidJson == JsonText([t |-> "invalid"])

\* json.dumps(x)
json_dumps(x) == JsonText(x)

\* json.loads(x): TypeError unless x is a str, JSONDecodeError unless the str
\* is a JSON document (the model's plain strs never are)
json_loads(x) ==
    IF x.t = "jsontext"
    THEN IF x.j = [t |-> "invalid"]
         THEN [raised |-> "JSONDecodeError", value |-> PyNone]
         ELSE [raised |-> "", value |-> x.j]
    ELSE IF x.t = "str"
    THEN [raised |-> "JSONDecodeError", value |-> PyNone]
    ELSE [raised |-> "TypeError", value |-> PyNone]

\* bool(x)
Truthy(x) ==
    CASE x.t = "none"     -> FALSE
      [] x.t = "str"      -> Len(x.s) > 0
      [] x.t = "int"      -> x.n # 0
      [] x.t = "list"     -> Len(x.l) > 0
      [] x.t = "dict"     -> DOMAIN x.d # {}
      [] x.t = "jsontext" -> TRUE

\* key in container: TypeError on None and int, substring test on str
\* (no model str contains a key name), membership on list and dict
Contains(x, key) ==
    CASE x.t = "dict" -> [raised |-> "", value |-> key \in DOMAIN x.d]
      [] x.t \in {"list", "str", "jsontext"} -> [raised |-> "", value |-> FALSE]
      [] OTHER -> [raised |-> "TypeError", value |-> FALSE]

\* x.get("query", ""): AttributeError unless x is a dict
GetQuery(x) ==
    IF x.t = "dict"
    THEN [raised |-> "",
          value  |-> IF "query" \in DOMAIN x.d THEN x.d["query"] ELSE PyStr(<<>>)]
    ELSE [raised |-> "AttributeError", value |-> PyNone]

(***************************************************************************)
(* Configuration                                                           *)
(***************************************************************************)
Variants == {"functions", "lambda"}

WEATHER_CACHE_EXPIRY_SECONDS == 60

JOKE_CACHE_EXPIRY_SECONDS == 60

WeatherErrorMessage(v) ==
    IF v = "functions"
    THEN "Failed to fetch weather data due to an API error"
    ELSE "Failed to fetch weather data due to an API error."

JokeErrorMessage(v) == "Failed to fetch joke due to an API error."

GeneralResponse == "I can only process weather and joke requests."

JsonHeaders == [Content_Type |-> "application/json"]

(***************************************************************************)
(* extract_query(event): [raised, query, user_query].  JSONDecodeError and *)
(* TypeError are caught and give ("", ""); anything else propagates.       *)
(***************************************************************************)
ExtractResult(r, q, uq) == [raised |-> r, query |-> q, user_query |-> uq]

Caught(exc) == exc \in {"JSONDecodeError", "TypeError"}

\* the outcome of the try block once a step raised exc
ExtractRaise(exc) ==
    IF Caught(exc) THEN ExtractResult("", PyStr(<<>>), PyStr(<<>>))
    ELSE ExtractResult(exc, PyNone, PyNone)

\* the branch that reads the query out of container x; keep_user says whether
\* the variant assigns user_query in that branch
ExtractFrom(x, keep_user) ==
    LET g == GetQuery(x)
    IN  IF g.raised # "" THEN ExtractRaise(g.raised)
        ELSE ExtractResult("", g.value, IF keep_user THEN g.value ELSE PyStr(<<>>))

extract_query(v, event) ==
    LET hasBody == Contains(event, "body")
        hasQsp  == Contains(event, "queryStringParameters")
    IN  IF hasBody.raised # "" THEN ExtractRaise(hasBody.raised)
        ELSE IF hasBody.value /\ Truthy(event.d["body"])
        THEN LET parsed == json_loads(event.d["body"])
             IN  IF parsed.raised # "" THEN ExtractRaise(parsed.raised)
                 ELSE ExtractFrom(parsed.value, v = "functions")
        ELSE IF hasQsp.raised # "" THEN ExtractRaise(hasQsp.raised)
        ELSE IF hasQsp.value /\ Truthy(event.d["queryStringParameters"])
        THEN ExtractFrom(event.d["queryStringParameters"], v = "functions")
        ELSE IF event.t = "dict"
        THEN ExtractFrom(event, TRUE)
        ELSE ExtractResult("", PyStr(<<>>), PyStr(<<>>))

(***************************************************************************)
(* The upstream HTTP APIs: a reply is a transport error (requests.get      *)
(* raises) or a response with a status code and a JSON document.           *)
(***************************************************************************)
TransportError == [kind |-> "error"]

HttpResponse(status, json) == [kind |-> "response", status |-> status, json |-> json]

\* response.raise_for_status() raises HTTPError
RaisesForStatus(reply) == reply.status >= 400 /\ reply.status < 600

\* requests.get(...); response.raise_for_status(): a RequestException or none
RequestFailed(reply) ==
    IF reply.kind = "error" THEN TRUE ELSE RaisesForStatus(reply)

\* the dict built from the weather provider's JSON; a missing key raises
\* KeyError and an empty "weather" list IndexError
WeatherData(data) ==
    IF "name" \notin DOMAIN data THEN [raised |-> "KeyError", value |-> EmptyDict]
    ELSE IF "weather" \notin DOMAIN data THEN [raised |-> "KeyError", value |-> EmptyDict]
    ELSE IF Len(data.weather) = 0 THEN [raised |-> "IndexError", value |-> EmptyDict]
    ELSE IF "description" \notin DOMAIN data.weather[1]
    THEN [raised |-> "KeyError", value |-> EmptyDict]
    ELSE IF "main" \notin DOMAIN data THEN [raised |-> "KeyError", value |-> EmptyDict]
    ELSE IF "temp" \notin DOMAIN data.main THEN [raised |-> "KeyError", value |-> EmptyDict]
    ELSE [raised |-> "",
          value  |-> [city_name           |-> data.name,
                      description         |-> data.weather[1].description,
                      temperature_celsius |-> data.main.temp]]

\* the dict built from the joke provider's JSON
JokeData(data) ==
    IF "setup" \notin DOMAIN data THEN [raised |-> "KeyError", value |-> EmptyDict]
    ELSE IF "punchline" \notin DOMAIN data THEN [raised |-> "KeyError", value |-> EmptyDict]
    ELSE [raised |-> "", value |-> [setup |-> data.setup, punchline |-> data.punchline]]

\* the cache test with the boundary included: an entry is served at its expiry
CacheLive_AtExpiry(cache, key, t) == key \in DOMAIN cache /\ cache[key].expiry >= t

\* the cache test with the comparison turned round: only stale entries are served
CacheLive_Inverted(cache, key, t) == key \in DOMAIN cache /\ cache[key].expiry < t

\* the cache test that finds no entry live: the provider is always asked
CacheLive_Never(cache, key, t) == FALSE

\* the cache test of get_weather and get_joke: key in cache and expiry > now
CacheLive(cache, key, t) == key \in DOMAIN cache /\ cache[key].expiry > t

\* the cache write with the expiry counted from the clock at the write
CachePut_AtArrival(cache, key, data, t, ttl) ==
    (key :> [data |-> data, expiry |-> now + ttl]) @@ cache

\* the cache write that keeps no other entry
CachePut_Clearing(cache, key, data, t, ttl) == (key :> [data |-> data, expiry |-> t + ttl])

\* cache[key] = {"data": data, "expiry": t + ttl}
CachePut(cache, key, data, t, ttl) ==
    (key :> [data |-> data, expiry |-> t + ttl]) @@ cache

\* get_weather from the reply on: [raised, value, store]; only a
\* RequestException is caught
get_weather_reply(v, reply) ==
    IF RequestFailed(reply)
    THEN [raised |-> "", value |-> [error |-> WeatherErrorMessage(v)], store |-> FALSE]
    ELSE LET wd == WeatherData(reply.json)
         IN  [raised |-> wd.raised, value |-> wd.value, store |-> wd.raised = ""]

get_joke_reply(v, reply) ==
    IF RequestFailed(reply)
    THEN [raised |-> "", value |-> [error |-> JokeErrorMessage(v)], store |-> FALSE]
    ELSE LET jd == JokeData(reply.json)
         IN  [raised |-> jd.raised, value |-> jd.value, store |-> jd.raised = ""]

\* get_weather(city) as one call at clock reading t, the provider answering
\* reply if asked, on the two module-level caches: the caches after the call
\* and what the call returned or raised
get_weather(v, caches, city, t, reply) ==
    IF CacheLive(caches.weather_cache, city, t)
    THEN [caches |-> caches, raised |-> "", value |-> caches.weather_cache[city].data]
    ELSE LET r == get_weather_reply(v, reply)
         IN  [caches |-> IF r.store
                         THEN [caches EXCEPT !.weather_cache =
                                  CachePut(@, city, r.value, t, WEATHER_CACHE_EXPIRY_SECONDS)]
                         ELSE caches,
              raised |-> r.raised,
              value  |-> r.value]

\* get_joke() as one call, in the same way
get_joke(v, caches, t, reply) ==
    IF CacheLive(caches.joke_cache, "joke", t)
    THEN [caches |-> caches, raised |-> "", value |-> caches.joke_cache["joke"].data]
    ELSE LET r == get_joke_reply(v, reply)
         IN  [caches |-> IF r.store
                         THEN [caches EXCEPT !.joke_cache =
                                  CachePut(@, "joke", r.value, t, JOKE_CACHE_EXPIRY_SECONDS)]
                         ELSE caches,
              raised |-> r.raised,
              value  |-> r.value]

(***************************************************************************)
(* process_query: the routing and the assembly of final_response           *)
(***************************************************************************)
\* city = weather_match.group(2).strip().rstrip("?")
CityOf(group2) == rstrip(strip(group2), {"?"})

\* final_response[key] = value
SetKey(response, key, value) == (key :> value) @@ response

\* the weather branch's assignment from the fetcher's dict
WithWeather(response, weather_data) ==
    IF "error" \notin DOMAIN weather_data
    THEN SetKey(response, "weather", weather_data)
    ELSE SetKey(response, "weather_error", weather_data.error)

\* the joke branch's assignment from the fetcher's dict
WithJoke(response, joke_data) ==
    IF "error" \notin DOMAIN joke_data
    THEN SetKey(response, "joke", joke_data)
    ELSE SetKey(response, "joke_error", joke_data.error)

\* the fallback without its test: general_response is always set
WithFallback_Always(response) == SetKey(response, "general_response", GeneralResponse)

\* if not final_response: final_response["general_response"] = ...
WithFallback(response) ==
    IF DOMAIN response = {}
    THEN SetKey(response, "general_response", GeneralResponse)
    ELSE response

(***************************************************************************)
(* The handler's return value                                              *)
(***************************************************************************)
NoReturn == [kind |-> "none"]

Raised(exc) == [kind |-> "raise", exc |-> exc]

Envelope(status, body) ==
    [kind |-> "return", statusCode |-> status, headers |-> JsonHeaders, body |-> body]

MissingQuery == Envelope(400, json_dumps([error |-> "Missing query"]))

(***************************************************************************)
(* Bounds and the inputs the environment draws from                        *)
(***************************************************************************)
\* clock advances in one behaviour
MaxTicks == 2

\* items the audit table holds before put_item fails
MaxLogItems == 1

\* invocations in one behaviour of the routing specification
MaxInvocations == 2

\* the amounts the clock advances by between two steps
TickSteps == {1, WEATHER_CACHE_EXPIRY_SECONDS - 1}

Procs == {"p1", "p2"}

\* query texts of the handler specification
SampleQueries ==
    { <<>>,  \* ''
      <<"w", "e", "a", "t", "h", "e", "r", " ", "i", "n", " ", "b">>,  \* 'weather in b'
      <<"t", "e", "l", "l", " ", "a", " ", "j", "o", "k", "e">>,  \* 'tell a joke'
      <<"j", "o", "k", "e", " ", "a", "b", "o", "u", "t", " ", "w", "e", "a", "t", "h", "e", "r", " ", "i", "n", " ", "b">>,  \* 'joke about weather in b'
      <<"h", "e", "l", "l", "o">> }  \* 'hello'

\* query texts of the cache specification: one city and the joke
CacheQueries ==
    { <<"w", "e", "a", "t", "h", "e", "r", " ", "i", "n", " ", "b">>,  \* 'weather in b'
      <<"t", "e", "l", "l", " ", "a", " ", "j", "o", "k", "e">>,  \* 'tell a joke'
      <<"j", "o", "k", "e", " ", "a", "b", "o", "u", "t", " ", "w", "e", "a", "t", "h", "e", "r", " ", "i", "n", " ", "b">> }  \* 'joke about weather in b'

\* query texts of the routing specification: head, keyword part, tail
RouteHeads ==
    { <<>>,  \* ''
      <<"a", " ", "F", "u", "n", "n", "y", " ">>,  \* 'a Funny '
      <<"H", "i", " ">> }  \* 'Hi '

\* the keyword parts
RouteMids ==
    { <<>>,  \* ''
      <<"w", "e", "a", "t", "h", "e", "r">>,  \* 'weather'
      <<"w", "e", "a", "t", "h", "e", "r", " ">>,  \* 'weather '
      <<"W", "e", "a", "t", "h", "e", "r", " ", "i", "n", " ">>,  \* 'Weather in '
      <<"f", "o", "r", "e", "c", "a", "s", "t", " ", " ">>,  \* 'forecast  '
      <<"t", "e", "m", "p", "e", "r", "a", "t", "u", "r", "e", "\t", "o", "f", " ">> }  \* 'temperature\tof '

\* the tails
RouteTails ==
    { <<>>,  \* ''
      <<"b">>,  \* 'b'
      <<"B", "?">>,  \* 'B?'
      <<"b", " ", "?">>,  \* 'b ?'
      <<"?">>,  \* '?'
      <<" ">>,  \* ' '
      <<" ", " ">>,  \* '  '
      <<"i", "n", "d", "i", "a">>,  \* 'india'
      <<"b", "\n", "j", "o", "k", "e">> }  \* 'b\njoke'

RouteQueries == {h \o m \o t : h \in RouteHeads, m \in RouteMids, t \in RouteTails}

\* values found under the "query" key: texts, and values that are no str
QueryValues(texts) ==
    {PyStr(q) : q \in texts} \cup {PyNone, PyInt(5), PyList(<<PyStr(<<"j">>)>>)}

\* the three places an invocation carries its query in
InBody(value) == PyDict([body |-> json_dumps(PyDict([query |-> value]))])

InQueryString(value) == PyDict([queryStringParameters |-> PyDict([query |-> value])])

TopLevel(value) == PyDict([query |-> value])

\* invocations that are malformed or mix the carriers
OddEvents ==
    { PyDict(EmptyDict),
      PyList(<<>>),
      PyInt(5),
      PyDict([body |-> InvalidJson]),
      PyDict([body |-> json_dumps(PyList(<<PyStr(<<"j">>)>>))]),
      PyDict([body |-> json_dumps(PyList(<<PyStr(<<"j">>)>>)), query |-> PyStr(<<"h", "i">>)]),
      PyDict([body |-> json_dumps(PyInt(5))]),
      PyDict([body |-> json_dumps(PyNone)]),
      PyDict([body |-> PyDict([query |-> PyStr(<<"j">>)])]),
      PyDict([body |-> PyStr(<<>>), query |-> PyStr(<<"h", "i">>)]),
      PyDict([body |-> json_dumps(PyDict(EmptyDict)),
              queryStringParameters |-> PyDict([query |-> PyStr(<<"h", "i">>)])]),
      PyDict([queryStringParameters |-> PyDict([query |-> PyStr(<<"h", "i">>)]),
              query |-> PyStr(<<"h", "o">>)]),
      PyDict([queryStringParameters |-> PyStr(<<"h", "i">>)]) }

EventsOf(texts) ==
    {InBody(x) : x \in QueryValues(texts)}
        \cup {InQueryString(x) : x \in QueryValues(texts)}
        \cup {TopLevel(x) : x \in QueryValues(texts)}

SampleEvents == EventsOf(SampleQueries) \cup OddEvents

CacheEvents == {TopLevel(PyStr(q)) : q \in CacheQueries}

RouteEvents == {TopLevel(PyStr(q)) : q \in RouteQueries}

\* what the weather provider may answer
WeatherJson(description) ==
    [name |-> "Berlin", weather |-> <<[description |-> description]>>, main |-> [temp |-> 18]]

WeatherReplies ==
    { TransportError,
      HttpResponse(500, EmptyDict),
      HttpResponse(200, WeatherJson("clear sky")),
      HttpResponse(200, WeatherJson("rain")),
      HttpResponse(200, [weather |-> <<[description |-> "rain"]>>, main |-> [temp |-> 18]]),
      HttpResponse(200, [name |-> "Berlin", weather |-> <<>>, main |-> [temp |-> 18]]),
      HttpResponse(200, [name |-> "Berlin", weather |-> <<[description |-> "rain"]>>,
                         main |-> [humidity |-> 40]]) }

\* what the joke provider may answer
JokeReplies ==
    { TransportError,
      HttpResponse(404, EmptyDict),
      HttpResponse(200, [setup |-> "s1", punchline |-> "p1"]),
      HttpResponse(200, [setup |-> "s2", punchline |-> "p2"]),
      HttpResponse(200, [setup |-> "s1"]) }

\* the providers' answers in the routing specification
RouteWeatherReplies ==
    { TransportError,
      HttpResponse(200, WeatherJson("clear sky")),
      HttpResponse(200, [weather |-> <<[description |-> "rain"]>>, main |-> [temp |-> 18]]) }

RouteJokeReplies ==
    { TransportError,
      HttpResponse(200, [setup |-> "s1", punchline |-> "p1"]),
      HttpResponse(200, [setup |-> "s1"]) }

\* the invocations and the providers' answers when two threads of one
\* process serve invocations at once
ThreadEvents ==
    {TopLevel(PyStr(<<"j", "o", "k", "e", " ", "a", "b", "o", "u", "t", " ", "w", "e", "a", "t", "h", "e", "r", " ", "i", "n", " ", "b">>))}  \* 'joke about weather in b'

ThreadWeatherReplies ==
    { TransportError,
      HttpResponse(200, WeatherJson("clear sky")),
      HttpResponse(200, WeatherJson("rain")) }

ThreadJokeReplies ==
    { TransportError,
      HttpResponse(200, [setup |-> "s1", punchline |-> "p1"]),
      HttpResponse(200, [setup |-> "s2", punchline |-> "p2"]) }

(***************************************************************************)
(* State.  inv[p] is one invocation of lambda_handler: where it stands     *)
(* (pc), its locals, the items it has passed to put_item (log_data), the    *)
(* value it returns or the exception it ends by, and                       *)
(* how each provider it asked answered ("ok", or "failed" for a transport  *)
(* error, an error status or a document lacking a field).                  *)
(* hist records, for the properties, the last finished get_weather call    *)
(* and the clock reading at which each cache entry was written.            *)
(***************************************************************************)
NoCall == [called |-> FALSE]

IdleInv ==
    [pc |-> "idle", event |-> PyNone, query |-> PyNone, user_query |-> PyNone,
     city |-> <<>>, t0 |-> 0, final_response |-> EmptyDict, log_data |-> <<>>,
     ret |-> NoReturn, upstream |-> [weather |-> "none", joke |-> "none"]]

Init ==
    /\ variant \in Variants
    /\ now = 0
    /\ ticks = 0
    /\ invocations = 0
    /\ weather_cache = EmptyDict
    /\ joke_cache = EmptyDict
    /\ LOGS_TABLE = <<>>
    /\ inv = [p \in Procs |-> IdleInv]
    /\ hist = [wcall |-> NoCall, wstored |-> EmptyDict, jstored |-> EmptyDict]

\* the record of a finished get_weather(city) call: the clock reading it
\* took, whether it asked the provider, and what it returned or raised
WeatherCall(city, start, upstream, result) ==
    [called |-> TRUE, city |-> city, start |-> start, upstream |-> upstream,
     result |-> result]

\* time passes
Tick(d) ==
    /\ ticks < MaxTicks
    /\ now' = now + d
    /\ ticks' = ticks + 1
    /\ UNCHANGED <<variant, invocations, weather_cache, joke_cache, LOGS_TABLE, inv, hist>>

\* lambda_handler(event) is entered: extract_query, the "Missing query"
\* return, and process_query up to query.lower()
HandlerEntry(p, e) ==
    /\ inv[p].pc = "idle"
    /\ LET x    == extract_query(variant, e)
           base == [IdleInv EXCEPT !.event = e, !.query = x.query,
                                   !.user_query = x.user_query]
       IN  inv' = [inv EXCEPT ![p] =
                IF x.raised # ""
                THEN [base EXCEPT !.pc = "return", !.ret = Raised(x.raised)]
                ELSE IF ~Truthy(x.query)
                THEN [base EXCEPT !.pc = "return", !.ret = MissingQuery]
                ELSE IF x.query.t # "str"
                THEN [base EXCEPT !.pc = "return", !.ret = Raised("AttributeError")]
                ELSE [base EXCEPT !.pc = "weather"]]
    /\ UNCHANGED <<variant, now, ticks, weather_cache, joke_cache, LOGS_TABLE, hist>>

\* process_query's weather branch up to the HTTP request: the pattern, the
\* city, and get_weather's clock reading and cache test
GetWeather(p) ==
    /\ inv[p].pc = "weather"
    /\ LET m    == weather_pattern_search(lower(inv[p].query.s))
           city == CityOf(m.group2)
       IN  IF ~m.matched
           THEN /\ inv' = [inv EXCEPT ![p].pc = "joke"]
                /\ hist' = hist
           ELSE IF CacheLive(weather_cache, city, now)
           THEN /\ inv' = [inv EXCEPT ![p].pc = "joke", ![p].city = city, ![p].t0 = now,
                             ![p].final_response =
                                 WithWeather(@, weather_cache[city].data)]
                /\ hist' = [hist EXCEPT !.wcall =
                              WeatherCall(city, now, FALSE, weather_cache[city].data)]
           ELSE /\ inv' = [inv EXCEPT ![p].pc = "weather_http", ![p].city = city,
                                      ![p].t0 = now]
                /\ hist' = hist
    /\ UNCHANGED <<variant, invocations, now, ticks, weather_cache, joke_cache, LOGS_TABLE>>

\* the weather provider answers: the rest of get_weather and the assignment
\* of weather or weather_error
WeatherReply(p, reply) ==
    /\ inv[p].pc = "weather_http"
    /\ LET r    == get_weather_reply(variant, reply)
           city == inv[p].city
           t0   == inv[p].t0
       IN  /\ weather_cache' =
                 IF r.store
                 THEN CachePut(weather_cache, city, r.value, t0, WEATHER_CACHE_EXPIRY_SECONDS)
                 ELSE weather_cache
           /\ inv' = [inv EXCEPT ![p] =
                 IF r.raised # ""
                 THEN [@ EXCEPT !.pc = "return", !.ret = Raised(r.raised),
                                !.upstream.weather = "failed"]
                 ELSE [@ EXCEPT !.pc = "joke",
                                !.final_response = WithWeather(@, r.value),
                                !.upstream.weather = IF r.store THEN "ok" ELSE "failed"]]
           /\ hist' = [hist EXCEPT
                 !.wcall = WeatherCall(city, t0, TRUE,
                              IF r.raised # "" THEN [raised |-> r.raised] ELSE r.value),
                 !.wstored = IF r.store THEN (city :> now) @@ @ ELSE @]
    /\ UNCHANGED <<variant, invocations, now, ticks, joke_cache, LOGS_TABLE>>

\* process_query's joke branch up to the HTTP request, and the fallback when
\* no joke is asked for
GetJoke(p) ==
    /\ inv[p].pc = "joke"
    /\ inv' = [inv EXCEPT ![p] =
          IF ~joke_pattern_search(lower(inv[p].query.s))
          THEN [@ EXCEPT !.pc = "log", !.final_response = WithFallback(@)]
          ELSE IF CacheLive(joke_cache, "joke", now)
          THEN [@ EXCEPT !.pc = "log", !.t0 = now,
                         !.final_response = WithFallback(WithJoke(@, joke_cache["joke"].data))]
          ELSE [@ EXCEPT !.pc = "joke_http", !.t0 = now]]
    /\ UNCHANGED <<variant, now, ticks, invocations, weather_cache, joke_cache,
                   LOGS_TABLE, hist>>

\* the joke provider answers: the rest of get_joke, the assignment of joke or
\* joke_error, and the fallback
JokeReply(p, reply) ==
    /\ inv[p].pc = "joke_http"
    /\ LET r == get_joke_reply(variant, reply)
       IN  /\ joke_cache' =
                 IF r.store
                 THEN CachePut(joke_cache, "joke", r.value, inv[p].t0, JOKE_CACHE_EXPIRY_SECONDS)
                 ELSE joke_cache
           /\ inv' = [inv EXCEPT ![p] =
                 IF r.raised # ""
                 THEN [@ EXCEPT !.pc = "return", !.ret = Raised(r.raised),
                                !.upstream.joke = "failed"]
                 ELSE [@ EXCEPT !.pc = "log",
                                !.final_response = WithFallback(WithJoke(@, r.value)),
                                !.upstream.joke = IF r.store THEN "ok" ELSE "failed"]]
           /\ hist' = [hist EXCEPT !.jstored = IF r.store THEN ("joke" :> now) @@ @ ELSE @]
    /\ UNCHANGED <<variant, invocations, now, ticks, weather_cache, LOGS_TABLE>>

\* the item log_query builds
LogItem(t, user_query, final_response) ==
    [Timestamp |-> t, Query |-> user_query, Response |-> json_dumps(final_response)]

\* log_query without its except clause: a failed put_item propagates
log_query_Propagates(stored) == IF stored THEN "" ELSE "ClientError"

\* the exception log_query ends by, "" for none: the try/except around
\* put_item catches every Exception
log_query(stored) == ""

\* log_query and the 200 return: put_item is passed the item and stores it
\* or raises
LogQuery(p, stored) ==
    /\ inv[p].pc = "log"
    /\ stored => Len(LOGS_TABLE) < MaxLogItems
    /\ LET item == LogItem(now, inv[p].user_query, inv[p].final_response)
       IN  /\ LOGS_TABLE' = IF stored THEN Append(LOGS_TABLE, item) ELSE LOGS_TABLE
           /\ inv' = [inv EXCEPT
                 ![p].pc = "return",
                 ![p].log_data = Append(@, item),
                 ![p].ret = IF log_query(stored) # ""
                            THEN Raised(log_query(stored))
                            ELSE Envelope(200, json_dumps(inv[p].final_response))]
    /\ UNCHANGED <<variant, invocations, now, ticks, weather_cache, joke_cache, hist>>

\* the platform takes the handler's outcome; the process is free again
Return(p) ==
    /\ inv[p].pc = "return"
    /\ inv' = [inv EXCEPT ![p] = IdleInv]
    /\ UNCHANGED <<variant, now, ticks, invocations, weather_cache, joke_cache,
                   LOGS_TABLE, hist>>

\* one invocation at a time, as the platform runs one process instance
NoneRunning == \A q \in Procs : inv[q].pc = "idle"

\* the platform calls the handler
Invoke(p, e) ==
    /\ HandlerEntry(p, e)
    /\ UNCHANGED invocations

\* the platform calls the handler, for a bounded number of times
InvokeCounted(p, e) ==
    /\ invocations < MaxInvocations
    /\ invocations' = invocations + 1
    /\ HandlerEntry(p, e)

\* the process that serves the invocations when they come one at a time
MainProc == "p1"

\* The handler: sequential invocations with every carrier of the query and
\* every malformed shape, at one clock reading.
Next ==
    \/ \E e \in SampleEvents : NoneRunning /\ Invoke(MainProc, e)
    \/ GetWeather(MainProc)
    \/ \E reply \in WeatherReplies : WeatherReply(MainProc, reply)
    \/ GetJoke(MainProc)
    \/ \E reply \in JokeReplies : JokeReply(MainProc, reply)
    \/ \E stored \in BOOLEAN : LogQuery(MainProc, stored)
    \/ Return(MainProc)

Spec == Init /\ [][Next]_vars

\* The caches: sequential invocations asking for a city and the joke, with
\* the clock advancing between any two steps; put_item fails.
NextCache ==
    \/ \E d \in TickSteps : Tick(d)
    \/ \E e \in CacheEvents : NoneRunning /\ Invoke(MainProc, e)
    \/ GetWeather(MainProc)
    \/ \E reply \in WeatherReplies : WeatherReply(MainProc, reply)
    \/ GetJoke(MainProc)
    \/ \E reply \in JokeReplies : JokeReply(MainProc, reply)
    \/ LogQuery(MainProc, FALSE)
    \/ Return(MainProc)

SpecCache == Init /\ [][NextCache]_vars

\* The router: a bounded number of sequential invocations over the routing
\* texts, at one clock reading; put_item fails.
NextRoute ==
    \/ \E e \in RouteEvents : NoneRunning /\ InvokeCounted(MainProc, e)
    \/ GetWeather(MainProc)
    \/ \E reply \in RouteWeatherReplies : WeatherReply(MainProc, reply)
    \/ GetJoke(MainProc)
    \/ \E reply \in RouteJokeReplies : JokeReply(MainProc, reply)
    \/ LogQuery(MainProc, FALSE)
    \/ Return(MainProc)

SpecRoute == Init /\ [][NextRoute]_vars

\* A threaded host: the two processes' invocations run at once, their steps
\* interleaved in any order, on the module-level caches that no lock guards;
\* a bounded number of invocations, the clock advancing between any two
\* steps; put_item fails.
NextThreads ==
    \/ \E d \in TickSteps : Tick(d)
    \/ \E p \in Procs : \E e \in ThreadEvents : InvokeCounted(p, e)
    \/ \E p \in Procs : GetWeather(p)
    \/ \E p \in Procs : \E reply \in ThreadWeatherReplies : WeatherReply(p, reply)
    \/ \E p \in Procs : GetJoke(p)
    \/ \E p \in Procs : \E reply \in ThreadJokeReplies : JokeReply(p, reply)
    \/ \E p \in Procs : LogQuery(p, FALSE)
    \/ \E p \in Procs : Return(p)

SpecThreads == Init /\ [][NextThreads]_vars

(***************************************************************************)
(* Properties                                                              *)
(***************************************************************************)
TTL == WEATHER_CACHE_EXPIRY_SECONDS

\* the handler has ended: inv[p].ret is its outcome
Ended(p) == inv[p].pc = "return"

\* the handler has returned a status-200 envelope
Returned200(p) ==
    /\ Ended(p)
    /\ inv[p].ret.kind = "return"
    /\ inv[p].ret.statusCode = 200

\* the extracted query is a non-empty text
HasText(p) == inv[p].query.t = "str" /\ Len(inv[p].query.s) > 0

\* the router's verdicts on the query of a running invocation
WantsWeather(p) == HasText(p) /\ weather_pattern_search(lower(inv[p].query.s)).matched

WantsJoke(p) == HasText(p) /\ joke_pattern_search(lower(inv[p].query.s))

ResponseKeys(p) == DOMAIN inv[p].final_response

\* C1 (as claimed): whatever the invocation, the providers and the audit
\* table do, the handler ends by returning an envelope with status 200 or 400
\* and the JSON header, never by raising.
C1_HandlerNeverRaises ==
    \A p \in Procs :
        Ended(p) =>
            /\ inv[p].ret.kind = "return"
            /\ inv[p].ret.statusCode \in {200, 400}
            /\ inv[p].ret.headers = JsonHeaders

\* a provider has just answered invocation p
FetchReplied(p) ==
    /\ inv[p].pc \in {"weather_http", "joke_http"}
    /\ inv'[p].pc # inv[p].pc

\* C2 (as claimed): when a provider's answer is a transport error, an error
\* status or a document lacking a field, the fetcher does not raise, it
\* returns the error outcome, and both caches are as they were.
C2_FetchNeverRaises ==
    [][\A p \in Procs :
          FetchReplied(p) =>
              /\ inv'[p].ret.kind # "raise"
              /\ inv'[p].upstream.weather = "failed" =>
                    /\ "weather_error" \in DOMAIN inv'[p].final_response
                    /\ UNCHANGED <<weather_cache, joke_cache>>
              /\ inv'[p].upstream.joke = "failed" =>
                    /\ "joke_error" \in DOMAIN inv'[p].final_response
                    /\ UNCHANGED <<weather_cache, joke_cache>>]_vars

\* C3: a cache read serves the stored value exactly when an entry exists and
\* now < expiresAt; otherwise the provider is asked, and so it is whenever the
\* TTL has elapsed since the entry was written.  Weather and joke alike.
C3_CacheRead ==
    [][\A p \in Procs :
          /\ (inv[p].pc = "weather" /\ inv'[p].pc # "weather" /\ WantsWeather(p)) =>
                LET c    == CityOf(weather_pattern_search(lower(inv[p].query.s)).group2)
                    live == c \in DOMAIN weather_cache /\ now < weather_cache[c].expiry
                IN  /\ live => /\ inv'[p].pc = "joke"
                               /\ inv'[p].final_response =
                                     SetKey(inv[p].final_response, "weather",
                                            weather_cache[c].data)
                    /\ ~live => inv'[p].pc = "weather_http"
                    /\ (c \in DOMAIN hist.wstored /\ now >= hist.wstored[c] + TTL)
                          => inv'[p].pc = "weather_http"
          /\ (inv[p].pc = "joke" /\ inv'[p].pc # "joke" /\ WantsJoke(p)) =>
                LET live == "joke" \in DOMAIN joke_cache /\ now < joke_cache["joke"].expiry
                IN  /\ live => /\ inv'[p].pc = "log"
                               /\ inv'[p].final_response =
                                     SetKey(inv[p].final_response, "joke",
                                            joke_cache["joke"].data)
                    /\ ~live => inv'[p].pc = "joke_http"
                    /\ ("joke" \in DOMAIN hist.jstored
                           /\ now >= hist.jstored["joke"] + JOKE_CACHE_EXPIRY_SECONDS)
                          => inv'[p].pc = "joke_http"]_vars

\* C3's case: the provider is being asked for a city whose entry expired at
\* the very clock reading of the fetch
C3_Witness ==
    \E p \in Procs :
        /\ inv[p].pc = "weather_http"
        /\ inv[p].city \in DOMAIN weather_cache
        /\ weather_cache[inv[p].city].expiry = inv[p].t0

\* a get_weather call of invocation p has just finished
WeatherFinished(p) ==
    \/ inv[p].pc = "weather_http" /\ inv'[p].pc # "weather_http"
    \/ /\ inv[p].pc = "weather"
       /\ inv'[p].pc = "joke"
       /\ "weather" \in DOMAIN inv'[p].final_response

\* the call that has just finished follows, for the same city and less than
\* the TTL later, the previous finished call
SecondInWindow ==
    /\ hist.wcall.called
    /\ hist'.wcall.city = hist.wcall.city
    /\ hist'.wcall.start < hist.wcall.start + TTL

UpstreamCalls(call) == IF call.upstream THEN 1 ELSE 0

\* C4 (as claimed): two get_weather calls for a city within one TTL window
\* ask the provider at most once in total and return identical values,
\* whatever the provider answers.
C4_TwoCallsOneUpstream ==
    [][\A p \in Procs :
          (WeatherFinished(p) /\ SecondInWindow) =>
              /\ UpstreamCalls(hist.wcall) + UpstreamCalls(hist'.wcall) <= 1
              /\ hist'.wcall.result = hist.wcall.result]_vars

\* C4 (amended): when a get_weather call asked the provider and succeeded,
\* the next call for that city within the TTL of the first one's start does
\* not ask the provider and returns the identical value.
C4_HitAfterSuccess ==
    [][\A p \in Procs :
          ( /\ WeatherFinished(p)
            /\ SecondInWindow
            /\ hist.wcall.upstream
            /\ "city_name" \in DOMAIN hist.wcall.result ) =>
              /\ ~hist'.wcall.upstream
              /\ hist'.wcall.result = hist.wcall.result]_vars

\* C4's case: the last call was served from the cache, later than the entry
\* was written
C4_Witness ==
    /\ hist.wcall.called
    /\ ~hist.wcall.upstream
    /\ hist.wcall.city \in DOMAIN hist.wstored
    /\ hist.wcall.start > hist.wstored[hist.wcall.city]

\* C5 (as claimed): an invocation whose extracted query is empty or absent
\* ends at once with the 400 "Missing query" envelope, the caches and the
\* audit table untouched; every invocation with a non-empty query text ends
\* with status 200.
C5_MissingQueryOnly400 ==
    [][\A p \in Procs :
          /\ ( /\ inv[p].pc = "idle"
               /\ inv'[p].pc # "idle"
               /\ inv'[p].ret.kind # "raise"
               /\ ~Truthy(inv'[p].query) ) =>
                  /\ inv'[p].pc = "return"
                  /\ inv'[p].ret = MissingQuery
                  /\ UNCHANGED <<weather_cache, joke_cache, LOGS_TABLE>>
          /\ ( /\ inv'[p].pc = "return"
               /\ inv'[p].query.t = "str"
               /\ Len(inv'[p].query.s) > 0 ) =>
                  /\ inv'[p].ret.kind = "return"
                  /\ inv'[p].ret.statusCode = 200]_vars

\* the weather pattern matches the query of p and the city it yields is empty
EmptyCity(p) ==
    /\ WantsWeather(p)
    /\ CityOf(weather_pattern_search(lower(inv[p].query.s)).group2) = <<>>

\* C6 (as claimed): when the text after a weather keyword is empty once
\* trimmed, the weather provider is not asked and no weather key is set; with
\* no joke keyword the response is the fallback alone.
C6_EmptyCityIsNoMatch ==
    \A p \in Procs :
        EmptyCity(p) =>
            /\ inv[p].pc # "weather_http"
            /\ ResponseKeys(p) \cap {"weather", "weather_error"} = {}
            /\ (Returned200(p) /\ ~WantsJoke(p)) =>
                  inv[p].final_response = [general_response |-> GeneralResponse]

\* a weather keyword of the query is followed by whitespace and by text that
\* is not only whitespace and question marks
HasCityPhrase(p) ==
    /\ HasText(p)
    /\ LET q == lower(inv[p].query.s)
       IN  \E i \in 1..Len(q) : \E kw \in WeatherKeywords :
              /\ MatchAt(q, i, kw)
              /\ i + Len(kw) <= Len(q)
              /\ q[i + Len(kw)] \in Whitespace
              /\ \E j \in (i + Len(kw))..Len(q) : q[j] \notin Whitespace \cup {"?"}

\* text without leading or trailing whitespace and without a trailing "?"
Trimmed(text) ==
    \/ text = <<>>
    \/ /\ text[1] \notin Whitespace
       /\ text[Len(text)] \notin Whitespace \cup {"?"}

\* C7 (as claimed): a query with a weather keyword and a city phrase is routed
\* to the weather fetcher, and the city the fetcher is given is trimmed.
C7_CityTrimmed ==
    \A p \in Procs :
        /\ (HasCityPhrase(p) /\ inv[p].pc \in {"joke", "joke_http", "log"}) =>
              ResponseKeys(p) \cap {"weather", "weather_error"} # {}
        /\ Trimmed(inv[p].city)

\* the response of p is complete: log_query is next, or the 200 return is made
Assembled(p) == inv[p].pc = "log" \/ Returned200(p)

\* C8: in every assembled response exactly one of weather / weather_error is
\* present when the weather pattern matched and neither otherwise, the same
\* for joke / joke_error, and general_response is present exactly when neither
\* matched, as the only key; the 200 body is that response.
C8_ResponseKeys ==
    \A p \in Procs :
        Assembled(p) =>
            LET keys == ResponseKeys(p)
            IN  /\ Cardinality(keys \cap {"weather", "weather_error"})
                      = IF WantsWeather(p) THEN 1 ELSE 0
                /\ Cardinality(keys \cap {"joke", "joke_error"})
                      = IF WantsJoke(p) THEN 1 ELSE 0
                /\ "general_response" \in keys <=> (~WantsWeather(p) /\ ~WantsJoke(p))
                /\ "general_response" \in keys => keys = {"general_response"}
                /\ Returned200(p) => inv[p].ret.body = json_dumps(inv[p].final_response)

\* C8's case: a returned response carrying one key of each domain
C8_Witness ==
    \E p \in Procs :
        /\ Returned200(p)
        /\ ResponseKeys(p) = {"weather", "joke_error"}

\* C9 (as claimed): for a query matching both domains, a failed weather fetch
\* with a successful joke fetch ends in a 200 response with weather_error and
\* joke and no weather; a successful weather fetch with a failed joke fetch in
\* one with weather and joke_error and no joke.
C9_PartialFailure ==
    \A p \in Procs :
        (Ended(p) /\ WantsWeather(p) /\ WantsJoke(p)) =>
            /\ (inv[p].upstream.weather = "failed" /\ inv[p].upstream.joke = "ok") =>
                  /\ Returned200(p)
                  /\ {"weather_error", "joke"} \subseteq ResponseKeys(p)
                  /\ "weather" \notin ResponseKeys(p)
            /\ (inv[p].upstream.weather = "ok" /\ inv[p].upstream.joke = "failed") =>
                  /\ Returned200(p)
                  /\ {"weather", "joke_error"} \subseteq ResponseKeys(p)
                  /\ "joke" \notin ResponseKeys(p)

\* C10 (as claimed): the messages under weather_error and joke_error are the
\* two fixed sentences, each ending in a full stop, in both variants.
C10_ErrorMessages ==
    \A p \in Procs :
        /\ "weather_error" \in ResponseKeys(p) =>
              inv[p].final_response["weather_error"]
                  = "Failed to fetch weather data due to an API error."
        /\ "joke_error" \in ResponseKeys(p) =>
              inv[p].final_response["joke_error"]
                  = "Failed to fetch joke due to an API error."

\* C11 (as claimed): every invocation answered with status 200 has passed
\* exactly one item to the audit table, holding the query text of the request
\* and the JSON text returned in the body, whichever field carried the query.
C11_AuditRecord ==
    \A p \in Procs :
        Returned200(p) =>
            /\ Len(inv[p].log_data) = 1
            /\ inv[p].log_data[1].Query = inv[p].query
            /\ inv[p].log_data[1].Response = inv[p].ret.body

\* C12: the step from log_query to the return gives the 200 envelope of the
\* assembled response and leaves both caches as they are, whether put_item
\* stored the item or raised: the outcome is a function of the state before
\* the write alone.
C12_AuditFailureHidden ==
    [][\A p \in Procs :
          (inv[p].pc = "log" /\ inv'[p].pc # "log") =>
              /\ inv'[p].ret = Envelope(200, json_dumps(inv[p].final_response))
              /\ inv'[p].ret.headers = JsonHeaders
              /\ UNCHANGED <<weather_cache, joke_cache>>]_vars

\* C12's case: a 200 was returned although put_item failed on the item
C12_Witness ==
    \E p \in Procs :
        /\ Returned200(p)
        /\ Len(inv[p].log_data) = 1
        /\ LOGS_TABLE = <<>>

\* the event carries a body that is present and non-empty
HasBody(e) == e.t = "dict" /\ "body" \in DOMAIN e.d /\ Truthy(e.d["body"])

\* the event carries queryStringParameters that are present and non-empty
HasQsp(e) ==
    e.t = "dict" /\ "queryStringParameters" \in DOMAIN e.d
        /\ Truthy(e.d["queryStringParameters"])

\* the body is the text of a JSON object holding "query"
BodyWithQuery(e) ==
    /\ e.d["body"].t = "jsontext"
    /\ e.d["body"].j # [t |-> "invalid"]
    /\ e.d["body"].j.t = "dict"
    /\ "query" \in DOMAIN e.d["body"].j.d

\* the queryStringParameters are a mapping holding "query"
QspWithQuery(e) ==
    /\ e.d["queryStringParameters"].t = "dict"
    /\ "query" \in DOMAIN e.d["queryStringParameters"].d

\* C13 (as claimed): with a body present and non-empty the query is
\* body.query, empty if absent, so a body without a query ends in the 400
\* whatever queryStringParameters and the top level hold; without a body,
\* non-empty queryStringParameters decide in the same way.
C13_Precedence ==
    [][\A p \in Procs :
          (inv[p].pc = "idle" /\ inv'[p].pc # "idle") =>
              LET e == inv'[p].event
              IN  /\ HasBody(e) =>
                        IF BodyWithQuery(e)
                        THEN inv'[p].query = e.d["body"].j.d["query"]
                        ELSE inv'[p].ret = MissingQuery
                  /\ (~HasBody(e) /\ HasQsp(e)) =>
                        IF QspWithQuery(e)
                        THEN inv'[p].query = e.d["queryStringParameters"].d["query"]
                        ELSE inv'[p].ret = MissingQuery]_vars

\* C14 (as claimed): an invocation whose non-empty body is not the text of a
\* JSON object holding a query ends in the 400 "Missing query" envelope.
C14_MalformedBodyIs400 ==
    \A p \in Procs :
        (Ended(p) /\ HasBody(inv[p].event) /\ ~BodyWithQuery(inv[p].event)) =>
            inv[p].ret = MissingQuery

\* the text holds one of the joke keywords, in whatever letter case
HasJokeKeyword(text) ==
    \E i \in 1..Len(text) : \E kw \in JokeKeywords :
        /\ i + Len(kw) - 1 <= Len(text)
        /\ \A j \in 1..Len(kw) : LowerChar(text[i + j - 1]) = kw[j]

\* C15 (as claimed): an invocation whose query holds a joke keyword in any
\* letter case ends with a response holding joke or joke_error, whether or
\* not a weather keyword is present and whatever the city capture took.
C15_JokeRouted ==
    \A p \in Procs :
        (Ended(p) /\ HasText(p) /\ HasJokeKeyword(inv[p].query.s)) =>
            /\ Returned200(p)
            /\ ResponseKeys(p) \cap {"joke", "joke_error"} # {}

\* the entries of cache a and of cache b agree on every key but key
SameBut(a, b, key) ==
    \A k \in (DOMAIN a \cup DOMAIN b) \ {key} :
        k \in DOMAIN a /\ k \in DOMAIN b /\ a[k] = b[k]

\* the outcomes of the two fetches of one request, weather first
WeatherThenJoke(v, caches, city, t, wreply, jreply) ==
    LET w == get_weather(v, caches, city, t, wreply)
        j == get_joke(v, w.caches, t, jreply)
    IN  [caches  |-> j.caches,
         weather |-> [raised |-> w.raised, value |-> w.value],
         joke    |-> [raised |-> j.raised, value |-> j.value]]

\* the outcomes of the two fetches of one request, joke first
JokeThenWeather(v, caches, city, t, wreply, jreply) ==
    LET j == get_joke(v, caches, t, jreply)
        w == get_weather(v, j.caches, city, t, wreply)
    IN  [caches  |-> w.caches,
         weather |-> [raised |-> w.raised, value |-> w.value],
         joke    |-> [raised |-> j.raised, value |-> j.value]]

\* C16: a step of the weather fetch leaves the joke cache as it is and
\* changes at most the weather entry of the city asked for; a step of the
\* joke fetch leaves the weather cache as it is; and the two fetches of a
\* request give the same outcomes and the same caches in either order.
C16_CacheFrame ==
    [][\A p \in Procs :
          /\ (inv[p].pc \in {"weather", "weather_http"} /\ inv'[p].pc # inv[p].pc) =>
                /\ joke_cache' = joke_cache
                /\ SameBut(weather_cache, weather_cache', inv'[p].city)
          /\ (inv[p].pc \in {"joke", "joke_http"} /\ inv'[p].pc # inv[p].pc) =>
                /\ weather_cache' = weather_cache
                /\ SameBut(joke_cache, joke_cache', "joke")
          /\ (inv[p].pc = "weather" /\ inv'[p].pc # "weather" /\ WantsWeather(p)) =>
                LET caches == [weather_cache |-> weather_cache, joke_cache |-> joke_cache]
                IN  \A wreply \in RouteWeatherReplies : \A jreply \in RouteJokeReplies :
                       WeatherThenJoke(variant, caches, inv'[p].city, now, wreply, jreply)
                          = JokeThenWeather(variant, caches, inv'[p].city, now, wreply, jreply)]_vars

\* C16's case: a weather fetch has just stored its city's entry beside the
\* entry of another city and the joke entry
C16_Witness ==
    \E p \in Procs :
        /\ inv[p].pc = "joke"
        /\ inv[p].upstream.weather = "ok"
        /\ inv[p].city \in DOMAIN weather_cache
        /\ DOMAIN weather_cache # {inv[p].city}
        /\ "joke" \in DOMAIN joke_cache

\* the city as the request names it: the text of the query where the city
\* was taken from its lowercased form, in the letter case of the request
NamedCity(text) ==
    LET m == weather_pattern_search(lower(text))
    IN  CityOf(SubSeq(text, m.start, m.start + Len(m.group2) - 1))

\* invocation p has come past its weather fetch, the pattern having matched
PastWeather(p) ==
    /\ inv[p].pc \in {"weather_http", "joke", "joke_http", "log"}
    /\ WantsWeather(p)

\* C17 (as claimed): the key get_weather is given is the city in the letter
\* case of the request, so that a request naming "B" is not served from the
\* entry of "b".
C17_RawCaseKey ==
    \A p \in Procs :
        PastWeather(p) => inv[p].city = NamedCity(inv[p].query.s)

HasUpper(text) == \E i \in 1..Len(text) : \E j \in 1..Len(UpperChars) : text[i] = UpperChars[j]

\* C17 (amended): get_weather uses the city it is given as the key, as it is;
\* the city it is given is the named city in lower case, so no key holds an
\* upper-case letter, a value served from the cache is the entry's under
\* exactly that key, and a stored value is stored under exactly that key.
C17_KeyIsLoweredCity ==
    /\ \A k \in DOMAIN weather_cache : ~HasUpper(k)
    /\ \A p \in Procs :
          PastWeather(p) =>
              LET named == NamedCity(inv[p].query.s)
                  city  == inv[p].city
              IN  /\ ~HasUpper(city)
                  /\ Len(city) = Len(named)
                  /\ \A i \in 1..Len(city) : city[i] = LowerChar(named[i])
                  /\ (inv[p].upstream.weather = "none" /\ inv[p].pc # "weather_http") =>
                        /\ city \in DOMAIN weather_cache
                        /\ inv[p].final_response["weather"] = weather_cache[city].data
                  /\ inv[p].upstream.weather = "ok" =>
                        /\ city \in DOMAIN weather_cache
                        /\ inv[p].final_response["weather"] = weather_cache[city].data

\* C17's case: a request naming its city with an upper-case letter has been
\* served from the cache
C17_Witness ==
    \E p \in Procs :
        /\ PastWeather(p)
        /\ inv[p].pc = "joke"
        /\ inv[p].upstream.weather = "none"
        /\ HasUpper(NamedCity(inv[p].query.s))

\* the entry of key is written by this step
Written(cache, cache_after, key) ==
    /\ key \in DOMAIN cache_after
    /\ key \notin DOMAIN cache \/ cache_after[key] # cache[key]

\* C19: with one invocation at a time, an entry is written only when its key
\* is absent or its entry has expired; and a value served from the cache is
\* the entry's, read inside the window that the write of the entry opened.
C19_NoOverwriteWhileLive ==
    [][/\ \A k \in DOMAIN weather_cache' :
             Written(weather_cache, weather_cache', k) =>
                 k \notin DOMAIN weather_cache \/ weather_cache[k].expiry <= now
       /\ \A k \in DOMAIN joke_cache' :
             Written(joke_cache, joke_cache', k) =>
                 k \notin DOMAIN joke_cache \/ joke_cache[k].expiry <= now
       /\ \A k \in DOMAIN weather_cache : k \in DOMAIN weather_cache'
       /\ \A k \in DOMAIN joke_cache : k \in DOMAIN joke_cache'
       /\ \A p \in Procs :
             ( /\ inv[p].pc = "weather"
               /\ inv'[p].pc = "joke"
               /\ "weather" \in DOMAIN inv'[p].final_response ) =>
                 LET c == inv'[p].city
                 IN  /\ c \in DOMAIN hist.wstored
                     /\ hist.wstored[c] <= now
                     /\ now < weather_cache[c].expiry
                     /\ weather_cache[c].expiry <= hist.wstored[c] + TTL
                     /\ inv'[p].final_response["weather"] = weather_cache[c].data]_vars

\* C19's case: the provider is being asked for a city whose entry, stored by
\* the previous call, has expired and is about to be written again
C19_Witness ==
    \E p \in Procs :
        /\ inv[p].pc = "weather_http"
        /\ inv[p].city \in DOMAIN weather_cache
        /\ weather_cache[inv[p].city].expiry <= inv[p].t0
        /\ hist.wcall.called
        /\ hist.wcall.upstream
        /\ hist.wcall.city = inv[p].city
        /\ hist.wcall.result = weather_cache[inv[p].city].data

\* C20: an entry is stored with expiry = the clock reading taken before the
\* provider was asked + TTL; so at the write it has TTL less the time the
\* call took left to live, none when the call took TTL or more, and the fetch
\* that follows such a write asks the provider again.
C20_ExpiryFromStart ==
    [][\A p \in Procs :
          /\ (inv[p].pc = "weather_http" /\ inv'[p].upstream.weather = "ok") =>
                LET e == weather_cache'[inv[p].city]
                IN  /\ e.expiry = inv[p].t0 + WEATHER_CACHE_EXPIRY_SECONDS
                    /\ e.expiry - now = WEATHER_CACHE_EXPIRY_SECONDS - (now - inv[p].t0)
                    /\ now - inv[p].t0 >= WEATHER_CACHE_EXPIRY_SECONDS => e.expiry <= now
          /\ (inv[p].pc = "joke_http" /\ inv'[p].upstream.joke = "ok") =>
                LET e == joke_cache'["joke"]
                IN  /\ e.expiry = inv[p].t0 + JOKE_CACHE_EXPIRY_SECONDS
                    /\ e.expiry - now = JOKE_CACHE_EXPIRY_SECONDS - (now - inv[p].t0)
                    /\ now - inv[p].t0 >= JOKE_CACHE_EXPIRY_SECONDS => e.expiry <= now
          /\ ( /\ inv[p].pc = "weather"
               /\ inv'[p].pc # "weather"
               /\ inv'[p].city \in DOMAIN weather_cache
               /\ inv'[p].city \in DOMAIN hist.wstored
               /\ weather_cache[inv'[p].city].expiry <= hist.wstored[inv'[p].city] ) =>
                 inv'[p].pc = "weather_http"]_vars

\* C20's case: the provider took the TTL to answer, the entry was stored
\* already expired, and the fetch that followed is asking the provider
C20_Witness ==
    \E p \in Procs :
        /\ inv[p].pc = "weather_http"
        /\ inv[p].city \in DOMAIN weather_cache
        /\ inv[p].city \in DOMAIN hist.wstored
        /\ weather_cache[inv[p].city].expiry <= hist.wstored[inv[p].city]

\* the later of two clock readings
Later(a, b) == IF a >= b THEN a ELSE b

\* C18 (as claimed): when invocations interleave on one key, no entry's
\* expiry ever moves backwards, and a fetch that stores leaves in the entry
\* the value and expiry of whichever fetch started later, its own or the one
\* whose entry it finds.
C18_NoLostUpdate ==
    [][/\ \A k \in DOMAIN weather_cache :
             k \in DOMAIN weather_cache' /\ weather_cache'[k].expiry >= weather_cache[k].expiry
       /\ \A k \in DOMAIN joke_cache :
             k \in DOMAIN joke_cache' /\ joke_cache'[k].expiry >= joke_cache[k].expiry
       /\ \A p \in Procs :
             ( /\ inv[p].pc = "weather_http"
               /\ inv'[p].upstream.weather = "ok"
               /\ inv[p].city \in DOMAIN weather_cache ) =>
                 LET old == weather_cache[inv[p].city]
                     new == weather_cache'[inv[p].city]
                 IN  /\ new.expiry = Later(old.expiry, inv[p].t0 + TTL)
                     /\ old.expiry > inv[p].t0 + TTL => new = old]_vars

====
